---- MODULE Spec2Model ----
(***************************************************************************)
(* YouTubeUploader (src/src/services/youtube/uploader.js): a facade with   *)
(* six asynchronous operations over an authenticated API client.           *)
(*                                                                         *)
(* A call runs synchronously from its entry to its first await (one        *)
(* action), the transport delivers progress events while an upload is in   *)
(* flight (one action per event), and the continuation after the await     *)
(* runs when the remote promise settles (one action per operation and      *)
(* per way of settling).                                                   *)
(*                                                                         *)
(* JavaScript numbers are modelled exactly: a finite number as an integer  *)
(* or a fraction of integers, Infinity and NaN as their own kinds.         *)
(* Math.round is computed on the exact quotient; IEEE rounding of the      *)
(* quotient can differ from it only at an exact .5 boundary.               *)
(***************************************************************************)
EXTENDS Integers, Sequences, FiniteSets, TLC

VARIABLES
  authClient,            \* this.authClient
  youtube,               \* this.youtube
  currentUpload,         \* this.currentUpload
  pc,                    \* per call: "idle", "awaiting", "returned", "threw"
  op,                    \* per call: the operation invoked
  path,                  \* per call: what the filesystem holds at the path argument
  metadata,              \* per upload: the metadata argument
  requests,              \* per call: number of requests issued to the remote client
  request,               \* per call: the parameters of the issued request
  remote,                \* per call: the remote promise (pending / resolved / rejected)
  outcome,               \* per call: what the caller gets (value returned or error thrown)
  fileSize,              \* per upload: const fileSize
  progressCallback,      \* per upload: whether a progressCallback was passed
  lastReportedProgress,  \* per upload: let lastReportedProgress
  emitted,               \* per upload: the snapshots passed to progressCallback, in order
  ticks,                 \* per upload: number of progress events the transport delivered
  solo                   \* per upload: the same events replayed on an upload running alone

vars == <<authClient, youtube, currentUpload, pc, op, path, metadata, requests, request,
          remote, outcome, fileSize, progressCallback, lastReportedProgress,
          emitted, ticks, solo>>

instanceVars == <<authClient, youtube, currentUpload>>
uploadVars == <<metadata, fileSize, progressCallback, lastReportedProgress, emitted, ticks, solo>>

Calls == {"A", "B"}

(***************************************************************************)
(* Bounds of the model.                                                    *)
(***************************************************************************)
MaxFileSize == 20     \* largest file size in bytes
MaxEvents == 3        \* progress events delivered to one upload
MaxConcEvents == 2    \* progress events per upload when two calls interleave
MaxQuarterSize == 24  \* largest file size of the quarter-step scenario

(***************************************************************************)
(* JavaScript values of the metadata object.                               *)
(***************************************************************************)
Undefined == [t |-> "undefined", s |-> "", b |-> FALSE, a |-> <<>>]
Omitted == [t |-> "omitted", s |-> "", b |-> FALSE, a |-> <<>>]
Str(x) == [t |-> "string", s |-> x, b |-> FALSE, a |-> <<>>]
Bool(x) == [t |-> "boolean", s |-> "", b |-> x, a |-> <<>>]
Arr(x) == [t |-> "array", s |-> "", b |-> FALSE, a |-> x]

\* ToBoolean: undefined, '' and false are falsy; arrays and other strings truthy
Truthy(v) ==
  \/ v.t = "string" /\ v.s # ""
  \/ v.t = "boolean" /\ v.b
  \/ v.t = "array"

\* metadata.k : undefined when the object has no such property
Get(m, k) == IF k \in DOMAIN m THEN m[k] ELSE Undefined

\* metadata.hasOwnProperty(k)
HasOwn(m, k) == k \in DOMAIN m

\* a || b
JsOr(a, b) == IF Truthy(a) THEN a ELSE b

\* v !== false
StrictNotFalseTruthy(v) == Bool(Truthy(v))
StrictNotFalse(v) == Bool(v # Bool(FALSE))

MetaKeys == {"title", "description", "tags", "categoryId", "language", "privacy",
             "embeddable", "publicStatsViewable", "madeForKids", "publishAt",
             "allowComments"}

\* the metadata object holding the properties of r that are not Omitted
MakeMeta(r) == [k \in {x \in MetaKeys : r[x] # Omitted} |-> r[k]]

EmptyMeta == MakeMeta([k \in MetaKeys |-> Omitted])

OffsetDate == "2030-01-02T03:04:05+01:00"
UtcDate == "2030-01-02T02:04:05.000Z"
BadDate == "bald"

\* new Date(s).toISOString(): the instant in UTC; an unparsable s is an Invalid Date
ValidDate(s) == s \in {OffsetDate, UtcDate}
ToISOString(s) == IF s = OffsetDate THEN UtcDate ELSE s

\* the condition of line 54
CommentsDisabledNoOwn(m) == ~Truthy(Get(m, "allowComments"))
CommentsDisabled(m) == HasOwn(m, "allowComments") /\ ~Truthy(Get(m, "allowComments"))

Snippet(m) ==
  [title |-> JsOr(Get(m, "title"), Str("Untitled Video")),
   description |-> JsOr(Get(m, "description"), Str("")),
   tags |-> JsOr(Get(m, "tags"), Arr(<<>>)),
   categoryId |-> JsOr(Get(m, "categoryId"), Str("22")),
   defaultLanguage |-> JsOr(Get(m, "language"), Str("de")),
   defaultAudioLanguage |-> JsOr(Get(m, "language"), Str("de"))]

StatusKeys(m) ==
  {"privacyStatus", "embeddable", "publicStatsViewable", "selfDeclaredMadeForKids"}
    \cup (IF Truthy(Get(m, "publishAt")) THEN {"publishAt"} ELSE {})
    \cup (IF CommentsDisabled(m) THEN {"commentModerationStatus"} ELSE {})

StatusBlock(m) ==
  [k \in StatusKeys(m) |->
     CASE k = "privacyStatus" -> JsOr(Get(m, "privacy"), Str("private"))
       [] k = "embeddable" -> StrictNotFalse(Get(m, "embeddable"))
       [] k = "publicStatsViewable" -> StrictNotFalse(Get(m, "publicStatsViewable"))
       [] k = "selfDeclaredMadeForKids" -> JsOr(Get(m, "madeForKids"), Bool(FALSE))
       [] k = "publishAt" -> Str(ToISOString(Get(m, "publishAt").s))
       [] k = "commentModerationStatus" -> Str("disabled")]

\* the object built at lines 31-56
RequestMetadata(m) == [snippet |-> Snippet(m), status |-> StatusBlock(m)]

\* new Date(metadata.publishAt).toISOString() throws on an Invalid Date
PublishAtThrows(m) ==
  Truthy(Get(m, "publishAt")) /\ ~ValidDate(Get(m, "publishAt").s)

(***************************************************************************)
(* Numbers of the progress handler.                                        *)
(***************************************************************************)
Fin(n) == [k |-> "fin", v |-> n]
Inf == [k |-> "inf", v |-> 0]
NaN == [k |-> "nan", v |-> 0]

\* a > b on numbers >= 0 (false as soon as one side is NaN)
JsGe(a, b) ==
  /\ a.k # "nan" /\ b.k # "nan"
  /\ \/ a.k = "inf"
     \/ a.k = "fin" /\ b.k = "fin" /\ a.v >= b.v
JsGt(a, b) ==
  /\ a.k # "nan" /\ b.k # "nan"
  /\ \/ a.k = "inf" /\ b.k = "fin"
     \/ a.k = "fin" /\ b.k = "fin" /\ a.v > b.v

\* Math.round(p / q) for q > 0: the nearest integer, halves upwards
Round(p, q) == (2 * p + q) \div (2 * q)

\* Math.floor(p / q) and the integer part of p / q, for q > 0
Floor(p, q) == p \div q
Trunc(p, q) == IF p >= 0 THEN p \div q ELSE -((-p) \div q)

\* line 75, with evt.bytesRead = num / den
CurrentProgressRatio(num, den, size) ==
  IF size = 0 THEN (IF num = 0 THEN NaN ELSE Inf)
  ELSE Fin(Round(num, den * size))
CurrentProgress(num, den, size) ==
  IF size = 0 THEN (IF num = 0 THEN NaN ELSE Inf)
  ELSE Fin(Round(100 * num, den * size))

\* line 78
ShouldReportGe(cur, last) == JsGe(cur, last)
ShouldReport(cur, last) == JsGt(cur, last)

\* line 83: evt.bytesRead / elapsedTime, the fraction n / d when finite
BytesPerMs(num, den, elapsed) ==
  IF elapsed = 0
  THEN [k |-> IF num = 0 THEN "nan" ELSE "inf", n |-> 0, d |-> 1]
  ELSE [k |-> "fin", n |-> num, d |-> den * elapsed]

\* bytesPerMs > 0
Positive(x) == x.k = "inf" \/ (x.k = "fin" /\ x.n > 0)

\* lines 84-85: the fraction n / d of milliseconds
RemainingTimeMs(size, num, den, elapsed) ==
  LET bpm == BytesPerMs(num, den, elapsed) IN
  IF Positive(bpm) /\ bpm.k = "fin"
  THEN [n |-> (size * den - num) * elapsed, d |-> num]
  ELSE [n |-> 0, d |-> 1]

\* lines 89-90
RemainingMinutes(r) == Floor(r.n, r.d * 60000)
RemainingSeconds(r) ==
  Floor(r.n - 60000 * r.d * Trunc(r.n, r.d * 60000), r.d * 1000)

Calculating == [text |-> "Berechne...", min |-> 0, sec |-> 0]
Processing == [text |-> "YouTube verarbeitet dein Video...", min |-> 0, sec |-> 0]
Estimate(m, s) == [text |-> "Noch ${m} Min ${s} Sek", min |-> m, sec |-> s]

\* lines 87-92 and 98
TimeRemainingTextNoOverride(cur, bpm, rem) ==
  IF Positive(bpm) THEN Estimate(RemainingMinutes(rem), RemainingSeconds(rem))
  ELSE Calculating
TimeRemainingText(cur, bpm, rem) ==
  IF JsGe(cur, Fin(100)) THEN Processing
  ELSE IF Positive(bpm) THEN Estimate(RemainingMinutes(rem), RemainingSeconds(rem))
  ELSE Calculating

\* lines 95-101
StatusLabelOffByOne(cur) ==
  IF JsGe(cur, Fin(100)) THEN "Verarbeite Video..."
  ELSE IF JsGt(cur, Fin(95)) THEN "Fast fertig..."
  ELSE "Uploading..."
StatusLabel(cur) ==
  IF JsGe(cur, Fin(100)) THEN "Verarbeite Video..."
  ELSE IF JsGe(cur, Fin(95)) THEN "Fast fertig..."
  ELSE "Uploading..."

\* line 111: the number in front of " MB/s", in hundredths
\* (x * 1000 / 1024 / 1024 * 100 = x * 3125 / 32768)
Speed(bpm) ==
  IF bpm.k = "fin" THEN Fin(Round(bpm.n * 3125, bpm.d * 32768))
  ELSE [k |-> bpm.k, v |-> 0]

\* lines 105-112: the object passed to progressCallback; bytesPerMs is the
\* local of line 83 the texts were derived from, kept beside them
Snapshot(size, num, den, elapsed) ==
  LET cur == CurrentProgress(num, den, size)
      bpm == BytesPerMs(num, den, elapsed)
  IN [progress |-> cur,
      bytesRead |-> <<num, den>>,
      bytesTotal |-> size,
      status |-> StatusLabel(cur),
      timeRemaining |-> TimeRemainingText(cur, bpm, RemainingTimeMs(size, num, den, elapsed)),
      speed |-> Speed(bpm),
      bytesPerMs |-> bpm]

(***************************************************************************)
(* Inputs.                                                                 *)
(***************************************************************************)
Operations == {"uploadVideo", "setThumbnail", "getVideoCategories",
               "getMyPlaylists", "addVideoToPlaylist", "getUploadQuota"}

\* what fs.existsSync and fs.statSync find at a path
Missing == [exists |-> FALSE, size |-> 0]
File(n) == [exists |-> TRUE, size |-> n]
NoPath == [exists |-> FALSE, size |-> -1]

ExistsSyncAlways(p) == TRUE
ExistsSync(p) == p.exists
StatSize(p) == p.size

\* Date.now() - startTime at a progress event, in ms
Elapsed == {0, 7000}

\* errors the remote client rejects with
RemoteErrors == {"ECONNRESET", "403 quotaExceeded"}

\* res.data of an insert or set: an opaque record
Records == {"record-1", "record-2"}

\* res.data.items of a listing: absent, or a list
NoItems == [present |-> FALSE, list |-> <<>>]
Items(l) == [present |-> TRUE, list |-> l]
ListItems == {NoItems, Items(<<>>), Items(<<"i1", "i2">>), Items(<<"i2", "i1">>)}

Channel(id, n, r) ==
  [id |-> id, statistics |-> [videoCount |-> n],
   contentDetails |-> [contentRatings |-> r]]
Ch1 == Channel("UC1", "7", "ratings-1")
Ch2 == Channel("UC2", "0", "ratings-2")
ChannelItems == {NoItems, Items(<<>>), Items(<<Ch1>>), Items(<<Ch1, Ch2>>),
                 Items(<<Ch2, Ch1>>)}

\* metadata objects of the specifications that are not about the request
SampleMetas ==
  {EmptyMeta,
   MakeMeta([k \in MetaKeys |->
      IF k = "publishAt" THEN Str(BadDate) ELSE Omitted])}

\* every combination of omitted and supplied properties
TitleVals == {Omitted, Str(""), Str("T")}
DescriptionVals == {Omitted, Str(""), Str("D")}
TagsVals == {Omitted, Arr(<<>>), Arr(<<"a", "b">>)}
CategoryVals == {Omitted, Str(""), Str("10")}
LanguageVals == {Omitted, Str(""), Str("en")}
PrivacyVals == {Omitted, Str(""), Str("unlisted")}
FlagVals == {Omitted, Bool(TRUE), Bool(FALSE)}
PublishAtVals == {Omitted, Str(OffsetDate), Str(BadDate)}

(***************************************************************************)
(* State after construction (lines 6-13).                                  *)
(***************************************************************************)
NoRequest == [api |-> "none"]
Pending == [state |-> "pending", data |-> "", error |-> ""]
NotCalled == [state |-> "none", data |-> "", error |-> ""]
NoOutcome == [kind |-> "none", value |-> "", error |-> ""]
Returned(v) == [kind |-> "returned", value |-> v, error |-> ""]
ThrewSwallowed(e) == [kind |-> "returned", value |-> "", error |-> ""]
Threw(e) == [kind |-> "threw", value |-> "", error |-> e]

Init ==
  /\ authClient = "authClient"
  /\ youtube = [version |-> "v3", auth |-> "authClient"]
  /\ currentUpload = "null"
  /\ pc = [c \in Calls |-> "idle"]
  /\ op = [c \in Calls |-> "none"]
  /\ path = [c \in Calls |-> NoPath]
  /\ metadata = [c \in Calls |-> EmptyMeta]
  /\ requests = [c \in Calls |-> 0]
  /\ request = [c \in Calls |-> NoRequest]
  /\ remote = [c \in Calls |-> NotCalled]
  /\ outcome = [c \in Calls |-> NoOutcome]
  /\ fileSize = [c \in Calls |-> 0]
  /\ progressCallback = [c \in Calls |-> FALSE]
  /\ lastReportedProgress = [c \in Calls |-> Fin(0)]
  /\ emitted = [c \in Calls |-> <<>>]
  /\ ticks = [c \in Calls |-> 0]
  /\ solo = [c \in Calls |-> [last |-> Fin(0), emitted |-> <<>>]]

(***************************************************************************)
(* Steps shared by the operations.                                         *)
(***************************************************************************)
\* the call ends: the async function returns o.value or throws o.error
Finish(c, o) ==
  /\ outcome' = [outcome EXCEPT ![c] = o]
  /\ pc' = [pc EXCEPT ![c] = IF o.kind = "returned" THEN "returned" ELSE "threw"]

\* every catch block: log, then throw error
Catch(c, e) == Finish(c, Threw(e))

\* await this.youtube.<api>(params): one request, the call suspends
Issue(c, params) ==
  /\ requests' = [requests EXCEPT ![c] = @ + 1]
  /\ request' = [request EXCEPT ![c] = params]
  /\ remote' = [remote EXCEPT ![c] = Pending]
  /\ pc' = [pc EXCEPT ![c] = "awaiting"]
  /\ UNCHANGED outcome

Awaiting(c, o) == pc[c] = "awaiting" /\ op[c] = o /\ remote[c].state = "pending"

Resolve(c, d) == remote' = [remote EXCEPT ![c] = [state |-> "resolved", data |-> d, error |-> ""]]
Reject(c, e) == remote' = [remote EXCEPT ![c] = [state |-> "rejected", data |-> "", error |-> e]]

\* the remote promise rejects with e: the catch block of the operation runs
Rejected(c, o) ==
  /\ Awaiting(c, o)
  /\ \E e \in RemoteErrors : Reject(c, e) /\ Catch(c, e)
  /\ UNCHANGED <<instanceVars, op, path, requests, request, uploadVars>>

(***************************************************************************)
(* uploadVideo (lines 22-127).                                             *)
(***************************************************************************)
\* the closure variable of line 58, of the call the handler belongs to
LastReportedShared(c) == lastReportedProgress["A"]
LastReported(c) == lastReportedProgress[c]

\* lines 22-67: p is what the filesystem holds at videoPath, cb whether a
\* progressCallback was passed
UploadVideo(c, p, m, cb) ==
  /\ pc[c] = "idle"
  /\ op' = [op EXCEPT ![c] = "uploadVideo"]
  /\ path' = [path EXCEPT ![c] = p]
  /\ metadata' = [metadata EXCEPT ![c] = m]
  /\ progressCallback' = [progressCallback EXCEPT ![c] = cb]
  /\ IF ~ExistsSync(p)
     THEN /\ Catch(c, "Datei nicht gefunden")
          /\ UNCHANGED <<requests, request, remote, fileSize>>
     ELSE /\ fileSize' = [fileSize EXCEPT ![c] = StatSize(p)]
          /\ IF PublishAtThrows(m)
             THEN /\ Catch(c, "RangeError: Invalid time value")
                  /\ UNCHANGED <<requests, request, remote>>
             ELSE Issue(c, [api |-> "videos.insert", part |-> "snippet,status",
                            requestBody |-> RequestMetadata(m)])
  /\ UNCHANGED <<instanceVars, lastReportedProgress, emitted, ticks, solo>>

\* lines 74-115: one progress event with evt.bytesRead = num / den, delivered
\* elapsed ms after startTime
OnUploadProgress(c, num, den, elapsed) ==
  LET cur == CurrentProgress(num, den, fileSize[c])
      snap == Snapshot(fileSize[c], num, den, elapsed)
  IN
  /\ Awaiting(c, "uploadVideo")
  /\ ticks' = [ticks EXCEPT ![c] = @ + 1]
  /\ IF ShouldReport(cur, LastReported(c))
     THEN /\ lastReportedProgress' = [lastReportedProgress EXCEPT ![c] = cur]
          /\ emitted' = [emitted EXCEPT ![c] =
                           IF progressCallback[c] THEN Append(@, snap) ELSE @]
     ELSE UNCHANGED <<lastReportedProgress, emitted>>
  /\ solo' = [solo EXCEPT ![c] =
                IF ShouldReport(cur, @.last)
                THEN [last |-> cur,
                      emitted |-> IF progressCallback[c]
                                  THEN Append(@.emitted, snap) ELSE @.emitted]
                ELSE @]
  /\ UNCHANGED <<instanceVars, pc, op, path, metadata, requests, request, remote,
                 outcome, fileSize, progressCallback>>

\* the transport reports any byte count, in any order
UploadProgress(c, maxEvents) ==
  /\ ticks[c] < maxEvents
  /\ \E n \in 0..(fileSize[c] + 1), e \in Elapsed : OnUploadProgress(c, n, 1, e)

\* the transport reports 0, S/4, S/2, 3S/4 and S, in that order
QuarterProgress(c) ==
  /\ ticks[c] < 5
  /\ \E e \in Elapsed : OnUploadProgress(c, ticks[c] * fileSize[c], 4, e)

\* lines 118-119
UploadVideoResolved(c) ==
  /\ Awaiting(c, "uploadVideo")
  /\ \E d \in Records : Resolve(c, d) /\ Finish(c, Returned(d))
  /\ UNCHANGED <<instanceVars, op, path, requests, request, uploadVars>>

\* lines 120-126
UploadVideoRejected(c) == Rejected(c, "uploadVideo")

(***************************************************************************)
(* setThumbnail (lines 135-159).                                           *)
(***************************************************************************)
SetThumbnail(c, videoId, p) ==
  /\ pc[c] = "idle"
  /\ op' = [op EXCEPT ![c] = "setThumbnail"]
  /\ path' = [path EXCEPT ![c] = p]
  /\ IF ~ExistsSync(p)
     THEN /\ Catch(c, "Thumbnail-Datei nicht gefunden")
          /\ UNCHANGED <<requests, request, remote>>
     ELSE Issue(c, [api |-> "thumbnails.set", videoId |-> videoId])
  /\ UNCHANGED <<instanceVars, uploadVars>>

SetThumbnailResolved(c) ==
  /\ Awaiting(c, "setThumbnail")
  /\ \E d \in Records : Resolve(c, d) /\ Finish(c, Returned(d))
  /\ UNCHANGED <<instanceVars, op, path, requests, request, uploadVars>>

SetThumbnailRejected(c) == Rejected(c, "setThumbnail")

(***************************************************************************)
(* getVideoCategories (lines 166-184), getMyPlaylists (lines 190-209).     *)
(***************************************************************************)
\* res.data.items.length throws when the response has no items
ReturnItems(c, items) ==
  IF items.present THEN Finish(c, Returned(items.list))
  ELSE Catch(c, "TypeError: Cannot read properties of undefined")

\* regionCode = 'DE' unless the caller passes one
GetVideoCategories(c, arg) ==
  /\ pc[c] = "idle"
  /\ op' = [op EXCEPT ![c] = "getVideoCategories"]
  /\ Issue(c, [api |-> "videoCategories.list", part |-> "snippet",
               regionCode |-> IF arg = Undefined THEN "DE" ELSE arg.s])
  /\ UNCHANGED <<instanceVars, path, uploadVars>>

GetVideoCategoriesResolved(c) ==
  /\ Awaiting(c, "getVideoCategories")
  /\ \E items \in ListItems : Resolve(c, items) /\ ReturnItems(c, items)
  /\ UNCHANGED <<instanceVars, op, path, requests, request, uploadVars>>

GetVideoCategoriesRejected(c) == Rejected(c, "getVideoCategories")

GetMyPlaylists(c) ==
  /\ pc[c] = "idle"
  /\ op' = [op EXCEPT ![c] = "getMyPlaylists"]
  /\ Issue(c, [api |-> "playlists.list", part |-> "snippet", mine |-> TRUE,
               maxResults |-> 50])
  /\ UNCHANGED <<instanceVars, path, uploadVars>>

GetMyPlaylistsResolved(c) ==
  /\ Awaiting(c, "getMyPlaylists")
  /\ \E items \in ListItems : Resolve(c, items) /\ ReturnItems(c, items)
  /\ UNCHANGED <<instanceVars, op, path, requests, request, uploadVars>>

GetMyPlaylistsRejected(c) == Rejected(c, "getMyPlaylists")

(***************************************************************************)
(* addVideoToPlaylist (lines 217-243).                                     *)
(***************************************************************************)
AddVideoToPlaylist(c, videoId, playlistId) ==
  /\ pc[c] = "idle"
  /\ op' = [op EXCEPT ![c] = "addVideoToPlaylist"]
  /\ Issue(c, [api |-> "playlistItems.insert", part |-> "snippet",
               playlistId |-> playlistId, kind |-> "youtube#video",
               videoId |-> videoId])
  /\ UNCHANGED <<instanceVars, path, uploadVars>>

AddVideoToPlaylistResolved(c) ==
  /\ Awaiting(c, "addVideoToPlaylist")
  /\ \E d \in Records : Resolve(c, d) /\ Finish(c, Returned(d))
  /\ UNCHANGED <<instanceVars, op, path, requests, request, uploadVars>>

AddVideoToPlaylistRejected(c) == Rejected(c, "addVideoToPlaylist")

(***************************************************************************)
(* getUploadQuota (lines 249-276).                                         *)
(***************************************************************************)
\* line 258
HasChannel(items) == items.present /\ Len(items.list) > 0

\* line 259
LastChannel(items) == items.list[Len(items.list)]
FirstChannel(items) == items.list[1]

\* lines 261-265
QuotaOf(channel) ==
  [channelId |-> channel.id,
   totalVideos |-> channel.statistics.videoCount,
   quotaInfo |-> channel.contentDetails.contentRatings]

GetUploadQuota(c) ==
  /\ pc[c] = "idle"
  /\ op' = [op EXCEPT ![c] = "getUploadQuota"]
  /\ Issue(c, [api |-> "channels.list", part |-> "contentDetails,statistics",
               mine |-> TRUE])
  /\ UNCHANGED <<instanceVars, path, uploadVars>>

GetUploadQuotaResolved(c) ==
  /\ Awaiting(c, "getUploadQuota")
  /\ \E items \in ChannelItems :
       /\ Resolve(c, items)
       /\ IF HasChannel(items)
          THEN Finish(c, Returned(QuotaOf(FirstChannel(items))))
          ELSE Catch(c, "Kein Kanal gefunden")
  /\ UNCHANGED <<instanceVars, op, path, requests, request, uploadVars>>

GetUploadQuotaRejected(c) == Rejected(c, "getUploadQuota")

(***************************************************************************)
(* Specifications.                                                         *)
(***************************************************************************)
\* Two calls on one instance, each any of the six operations, interleaved.
Next ==
  \E c \in Calls :
    \/ GetUploadQuota(c)
    \/ GetUploadQuotaResolved(c)
    \/ GetUploadQuotaRejected(c)
    \/ \E p \in {Missing, File(3)}, m \in SampleMetas, cb \in BOOLEAN :
         UploadVideo(c, p, m, cb)
    \/ UploadProgress(c, MaxConcEvents)
    \/ UploadVideoResolved(c)
    \/ UploadVideoRejected(c)
    \/ \E p \in {Missing, File(3)} : SetThumbnail(c, "v1", p)
    \/ SetThumbnailResolved(c)
    \/ SetThumbnailRejected(c)
    \/ \E arg \in {Undefined, Str("US")} : GetVideoCategories(c, arg)
    \/ GetVideoCategoriesResolved(c)
    \/ GetVideoCategoriesRejected(c)
    \/ GetMyPlaylists(c)
    \/ GetMyPlaylistsResolved(c)
    \/ GetMyPlaylistsRejected(c)
    \/ AddVideoToPlaylist(c, "v1", "PL1")
    \/ AddVideoToPlaylistResolved(c)
    \/ AddVideoToPlaylistRejected(c)

Spec == Init /\ [][Next]_vars

\* One upload, its progress events any byte counts in any order.
FileSizes == {0, 1, 3, MaxFileSize}

NextProgress ==
  \/ \E n \in FileSizes, cb \in BOOLEAN : UploadVideo("A", File(n), EmptyMeta, cb)
  \/ UploadProgress("A", MaxEvents)
  \/ UploadVideoResolved("A")
  \/ UploadVideoRejected("A")

SpecProgress == Init /\ [][NextProgress]_vars

\* One upload of a file of S > 0 bytes, its progress events the quarter steps.
NextQuarters ==
  \/ \E n \in 1..MaxQuarterSize, cb \in BOOLEAN :
       UploadVideo("A", File(n), EmptyMeta, cb)
  \/ QuarterProgress("A")
  \/ UploadVideoResolved("A")
  \/ UploadVideoRejected("A")

SpecQuarters == Init /\ [][NextQuarters]_vars

\* One uploadVideo call up to its request, over every metadata object.
NextMeta ==
  /\ pc["A"] = "idle"
  /\ \E p \in {Missing, File(3)},
       title \in TitleVals, description \in DescriptionVals, tags \in TagsVals,
       categoryId \in CategoryVals, language \in LanguageVals,
       privacy \in PrivacyVals, embeddable \in FlagVals,
       publicStatsViewable \in FlagVals, madeForKids \in FlagVals,
       publishAt \in PublishAtVals, allowComments \in FlagVals :
      UploadVideo("A", p,
        MakeMeta([title |-> title, description |-> description, tags |-> tags,
                  categoryId |-> categoryId, language |-> language,
                  privacy |-> privacy, embeddable |-> embeddable,
                  publicStatsViewable |-> publicStatsViewable,
                  madeForKids |-> madeForKids, publishAt |-> publishAt,
                  allowComments |-> allowComments]),
        TRUE)

SpecMeta == Init /\ [][NextMeta]_vars

(***************************************************************************)
(* Properties.                                                             *)
(***************************************************************************)
Progresses(c) == [i \in 1..Len(emitted[c]) |-> emitted[c][i].progress]

StrictlyIncreasing(ps) ==
  \A i, j \in 1..Len(ps) : i < j => JsGt(ps[j], ps[i])

\* C1: whatever byte counts the transport reports and in whatever order, the
\* percentages of the snapshots passed to the callback of one upload are
\* strictly increasing: none out of order, none twice.
C1_SnapshotsStrictlyIncreasing ==
  \A c \in Calls :
    /\ StrictlyIncreasing(Progresses(c))
    /\ \A i \in 1..Len(emitted[c]) : emitted[c][i].progress.k # "nan"
    /\ Len(emitted[c]) > 0 => emitted[c][Len(emitted[c])].progress = LastReported(c)

\* three events were delivered to an upload with a callback, one of them
\* was not above the last reported percentage and produced no snapshot
C1_Witness ==
  /\ progressCallback["A"]
  /\ ticks["A"] = 3
  /\ Len(emitted["A"]) = 2
  /\ emitted["A"][1].progress = Fin(50)
  /\ emitted["A"][2].progress = Fin(100)

NotFoundMessage(o) ==
  IF o = "uploadVideo" THEN "Datei nicht gefunden" ELSE "Thumbnail-Datei nicht gefunden"

\* C2: an uploadVideo or setThumbnail call whose path does not exist fails
\* with the Not Found error, and at no point of the call is a request issued
\* to the remote service or a progress snapshot emitted.
C2_MissingFileNoRequest ==
  \A c \in Calls :
    (op[c] \in {"uploadVideo", "setThumbnail"} /\ ~path[c].exists) =>
      /\ pc[c] = "threw"
      /\ outcome[c].kind = "threw"
      /\ outcome[c].error = NotFoundMessage(op[c])
      /\ requests[c] = 0
      /\ request[c] = NoRequest
      /\ remote[c].state = "none"
      /\ emitted[c] = <<>>

C2_Witness ==
  /\ op["A"] = "uploadVideo" /\ ~path["A"].exists /\ pc["A"] = "threw"
  /\ op["B"] = "setThumbnail" /\ ~path["B"].exists /\ pc["B"] = "threw"

\* the response data d holds no channel record
ZeroChannels(d) == ~d.present \/ Len(d.list) = 0

\* C3 as claimed: a rejected request is not retried and its error is thrown
\* unchanged, and a resolved request always makes the call return.
C3_AsClaimed ==
  \A c \in Calls :
    /\ remote[c].state = "rejected" =>
         outcome[c].kind = "threw" /\ outcome[c].error = remote[c].error
           /\ requests[c] = 1
    /\ remote[c].state = "resolved" => outcome[c].kind = "returned"

\* C3 (amended): no call issues more than one request; a rejected request
\* makes the call throw the same error; a resolved request makes uploadVideo,
\* setThumbnail and addVideoToPlaylist return the response data, makes the
\* two listings return the items list (or throw a TypeError when the response
\* has none), and makes getUploadQuota return the extract of the first
\* channel (or throw the no-channel error when there is none); a settled
\* uploadVideo has either returned a record or thrown, never both or neither.
C3_NoRecovery ==
  \A c \in Calls :
    /\ requests[c] <= 1
    /\ remote[c].state = "pending" => pc[c] = "awaiting" /\ outcome[c] = NoOutcome
    /\ remote[c].state = "rejected" =>
         /\ pc[c] = "threw" /\ requests[c] = 1
         /\ outcome[c].kind = "threw" /\ outcome[c].error = remote[c].error
         /\ outcome[c].error \in RemoteErrors
    /\ remote[c].state = "resolved" =>
         /\ requests[c] = 1
         /\ op[c] \in {"uploadVideo", "setThumbnail", "addVideoToPlaylist"} =>
              /\ pc[c] = "returned" /\ outcome[c].kind = "returned"
              /\ outcome[c].value = remote[c].data
         /\ op[c] \in {"getVideoCategories", "getMyPlaylists"} =>
              IF remote[c].data.present
              THEN /\ pc[c] = "returned" /\ outcome[c].kind = "returned"
                   /\ outcome[c].value = remote[c].data.list
              ELSE /\ pc[c] = "threw" /\ outcome[c].kind = "threw"
                   /\ outcome[c].error = "TypeError: Cannot read properties of undefined"
         /\ op[c] = "getUploadQuota" =>
              IF ZeroChannels(remote[c].data)
              THEN /\ pc[c] = "threw" /\ outcome[c].kind = "threw"
                   /\ outcome[c].error = "Kein Kanal gefunden"
              ELSE /\ pc[c] = "returned" /\ outcome[c].kind = "returned"
                   /\ outcome[c].value.channelId = remote[c].data.list[1].id
    /\ (op[c] = "uploadVideo" /\ remote[c].state \in {"resolved", "rejected"}) =>
         \/ outcome[c].kind = "returned" /\ outcome[c].value \in Records
              /\ outcome[c].error = ""
         \/ outcome[c].kind = "threw" /\ outcome[c].error \in RemoteErrors
              /\ outcome[c].value = ""

\* an upload whose request was rejected after progress events, beside a
\* quota call whose request resolved with no channel
C3_Witness ==
  /\ op["A"] = "uploadVideo" /\ remote["A"].state = "rejected"
  /\ ticks["A"] = 2 /\ outcome["A"] = Threw("ECONNRESET")
  /\ op["B"] = "getUploadQuota" /\ remote["B"].state = "resolved"
  /\ outcome["B"].kind = "threw"

\* C4: when the channel listing resolves with zero channel records (an empty
\* items list or none at all) getUploadQuota throws the no-channel error, and
\* otherwise it returns channelId, totalVideos and quotaInfo of the first
\* channel record.
C4_QuotaFromFirstChannel ==
  \A c \in Calls :
    (op[c] = "getUploadQuota" /\ remote[c].state = "resolved") =>
      IF ZeroChannels(remote[c].data)
      THEN outcome[c].kind = "threw" /\ outcome[c].error = "Kein Kanal gefunden"
      ELSE /\ outcome[c].kind = "returned"
           /\ DOMAIN outcome[c].value = {"channelId", "totalVideos", "quotaInfo"}
           /\ outcome[c].value.channelId = remote[c].data.list[1].id
           /\ outcome[c].value.totalVideos = remote[c].data.list[1].statistics.videoCount
           /\ outcome[c].value.quotaInfo =
                remote[c].data.list[1].contentDetails.contentRatings

C4_Witness ==
  /\ op["A"] = "getUploadQuota" /\ remote["A"].state = "resolved"
  /\ ~remote["A"].data.present /\ pc["A"] = "threw"
  /\ op["B"] = "getUploadQuota" /\ remote["B"].state = "resolved"
  /\ remote["B"].data = Items(<<Ch2, Ch1>>) /\ pc["B"] = "returned"
  /\ outcome["B"].value.channelId = "UC2"

\* the request of call c was built and issued
Issued(c) == op[c] = "uploadVideo" /\ requests[c] = 1

SnippetOf(c) == request[c].requestBody.snippet
StatusOf(c) == request[c].requestBody.status

\* the request fields that come from one metadata property: <<property,
\* value in the request, documented default>>
Fields(c) ==
  {<<"title", SnippetOf(c).title, Str("Untitled Video")>>,
   <<"description", SnippetOf(c).description, Str("")>>,
   <<"tags", SnippetOf(c).tags, Arr(<<>>)>>,
   <<"categoryId", SnippetOf(c).categoryId, Str("22")>>,
   <<"language", SnippetOf(c).defaultLanguage, Str("de")>>,
   <<"language", SnippetOf(c).defaultAudioLanguage, Str("de")>>,
   <<"privacy", StatusOf(c)["privacyStatus"], Str("private")>>,
   <<"embeddable", StatusOf(c)["embeddable"], Bool(TRUE)>>,
   <<"publicStatsViewable", StatusOf(c)["publicStatsViewable"], Bool(TRUE)>>,
   <<"madeForKids", StatusOf(c)["selfDeclaredMadeForKids"], Bool(FALSE)>>}

\* C5 as claimed: every omitted property takes its default in the request
\* and every property supplied with a non-default value appears unchanged.
C5_AsClaimed ==
  \A c \in Calls : Issued(c) =>
    \A f \in Fields(c) :
      /\ ~HasOwn(metadata[c], f[1]) => f[2] = f[3]
      /\ (HasOwn(metadata[c], f[1]) /\ metadata[c][f[1]] # f[3]) =>
           f[2] = metadata[c][f[1]]

\* C5 (amended): every omitted property takes its default in the request; a
\* property supplied with a non-default value appears unchanged, except that
\* an empty string (title, categoryId, language, privacy) is replaced by the
\* default.
C5_DefaultsAndOverrides ==
  \A c \in Calls : Issued(c) =>
    \A f \in Fields(c) :
      /\ ~HasOwn(metadata[c], f[1]) => f[2] = f[3]
      /\ (HasOwn(metadata[c], f[1]) /\ metadata[c][f[1]] # f[3]) =>
           f[2] = IF metadata[c][f[1]] = Str("") THEN f[3] ELSE metadata[c][f[1]]

\* a request built from an empty title, a supplied privacy and category, a
\* cleared embeddable flag, and every other property omitted
C5_Witness ==
  /\ Issued("A")
  /\ metadata["A"] = MakeMeta([k \in MetaKeys |->
       CASE k = "title" -> Str("")
         [] k = "privacy" -> Str("unlisted")
         [] k = "categoryId" -> Str("10")
         [] k = "embeddable" -> Bool(FALSE)
         [] OTHER -> Omitted])
  /\ SnippetOf("A").title = Str("Untitled Video")
  /\ SnippetOf("A").categoryId = Str("10")
  /\ StatusOf("A")["embeddable"] = Bool(FALSE)
  /\ StatusOf("A")["publicStatsViewable"] = Bool(TRUE)

\* C9: the status block of the request has commentModerationStatus
\* 'disabled' exactly when the metadata supplies allowComments as false, and
\* no such field when allowComments is omitted or true; privacy 'unlisted'
\* with allowComments false and no tags or category gives privacyStatus
\* 'unlisted', commentModerationStatus 'disabled', tags [] and category '22'.
C9_CommentModeration ==
  \A c \in Calls : Issued(c) =>
    /\ ("commentModerationStatus" \in DOMAIN StatusOf(c)) <=>
         (HasOwn(metadata[c], "allowComments")
            /\ metadata[c]["allowComments"] = Bool(FALSE))
    /\ "commentModerationStatus" \in DOMAIN StatusOf(c) =>
         StatusOf(c)["commentModerationStatus"] = Str("disabled")
    /\ (/\ Get(metadata[c], "privacy") = Str("unlisted")
        /\ Get(metadata[c], "allowComments") = Bool(FALSE)
        /\ ~HasOwn(metadata[c], "tags")
        /\ ~HasOwn(metadata[c], "categoryId")) =>
         /\ StatusOf(c)["privacyStatus"] = Str("unlisted")
         /\ "commentModerationStatus" \in DOMAIN StatusOf(c)
         /\ StatusOf(c)["commentModerationStatus"] = Str("disabled")
         /\ SnippetOf(c).tags = Arr(<<>>)
         /\ SnippetOf(c).categoryId = Str("22")
         /\ SnippetOf(c).title = JsOr(Get(metadata[c], "title"), Str("Untitled Video"))

\* the example: title and description given, privacy 'unlisted', comments off
C9_Witness ==
  /\ Issued("A")
  /\ metadata["A"] = MakeMeta([k \in MetaKeys |->
       CASE k = "title" -> Str("T")
         [] k = "description" -> Str("D")
         [] k = "privacy" -> Str("unlisted")
         [] k = "allowComments" -> Bool(FALSE)
         [] OTHER -> Omitted])
  /\ StatusOf("A")["commentModerationStatus"] = Str("disabled")
  /\ SnippetOf("A").title = Str("T")
  /\ SnippetOf("A").description = Str("D")

Below(p, n) == p.k = "fin" /\ p.v < n

\* C6: every emitted snapshot carries the label of its own percentage:
\* 'Uploading...' below 95, 'Fast fertig...' (almost done) from 95 to 99,
\* 'Verarbeite Video...' (processing) at 100 or more.
C6_StatusLabelMatchesPercentage ==
  \A c \in Calls : \A i \in 1..Len(emitted[c]) :
    LET s == emitted[c][i] IN
    /\ Below(s.progress, 95) => s.status = "Uploading..."
    /\ (~Below(s.progress, 95) /\ Below(s.progress, 100)) => s.status = "Fast fertig..."
    /\ ~Below(s.progress, 100) => s.status = "Verarbeite Video..."

\* one upload that emitted a snapshot of each label, the middle one at 95
C6_Witness ==
  /\ Len(emitted["A"]) = 3
  /\ emitted["A"][1].status = "Uploading..."
  /\ emitted["A"][2].status = "Fast fertig..." /\ emitted["A"][2].progress = Fin(95)
  /\ emitted["A"][3].status = "Verarbeite Video..."

\* C7: after progress events at 0, S/4, S/2, 3S/4 and S bytes of a file of
\* S > 0 bytes, the emitted percentages are strictly increasing, none is
\* emitted twice, and the last emitted snapshot is at 99 or more.
C7_QuarterSteps ==
  \A c \in Calls :
    (op[c] = "uploadVideo" /\ progressCallback[c] /\ ticks[c] = 5) =>
      /\ fileSize[c] > 0
      /\ Len(emitted[c]) > 0
      /\ \A i \in 1..Len(emitted[c]) : emitted[c][i].progress.k = "fin"
      /\ \A i \in 1..(Len(emitted[c]) - 1) :
           emitted[c][i].progress.v < emitted[c][i + 1].progress.v
      /\ emitted[c][Len(emitted[c])].progress.v >= 99

\* the five events of a 7-byte file: 25, 50, 75 and 100 were emitted
C7_Witness ==
  /\ fileSize["A"] = 7 /\ progressCallback["A"] /\ ticks["A"] = 5
  /\ Len(emitted["A"]) = 4
  /\ emitted["A"][1].bytesRead = <<7, 4>>
  /\ emitted["A"][4].progress = Fin(100)

ThroughputZero(x) == x.k = "fin" /\ x.n = 0
ThroughputNonzero(x) == x.k = "inf" \/ (x.k = "fin" /\ x.n # 0)

\* C10: the remaining-time text of an emitted snapshot is the processing
\* message at 100% (or more); below 100% it is 'Berechne...' (calculating)
\* when the measured throughput is zero and a minutes/seconds estimate when
\* it is nonzero.
C10_TimeRemainingText ==
  \A c \in Calls : \A i \in 1..Len(emitted[c]) :
    LET s == emitted[c][i] IN
    /\ ~Below(s.progress, 100) => s.timeRemaining = Processing
    /\ (Below(s.progress, 100) /\ ThroughputZero(s.bytesPerMs)) =>
         s.timeRemaining = Calculating
    /\ (Below(s.progress, 100) /\ ThroughputNonzero(s.bytesPerMs)) =>
         /\ s.timeRemaining.text = "Noch ${m} Min ${s} Sek"
         /\ s.timeRemaining.min >= 0
         /\ s.timeRemaining.sec \in 0..59
    \* an emitted snapshot has bytesRead > 0: its throughput is never zero
    /\ ThroughputNonzero(s.bytesPerMs)

\* an estimate of 2 minutes 13 seconds, then the processing message with a
\* nonzero throughput
C10_Witness ==
  /\ Len(emitted["A"]) = 2
  /\ emitted["A"][1].timeRemaining = Estimate(2, 13)
  /\ emitted["A"][2].timeRemaining = Processing
  /\ ThroughputNonzero(emitted["A"][2].bytesPerMs)

====
